---------------------------- MODULE Spec2Model ----------------------------
(***************************************************************************)
(* Model of src/privacy/privacy_policy_analyzer.py: the P6 transparency    *)
(* scoring pipeline of class PrivacyPolicyAnalyzer.                        *)
(*                                                                         *)
(* Numbers.  Python floats are modelled as exact rationals <<n, d>> in     *)
(* lowest terms with d > 0, so a score is what the formula of the source   *)
(* yields before binary rounding error.  round(x, 3) rounds to the        *)
(* nearest thousandth; where the exact value lies halfway between two      *)
(* thousandths the float that stands for it lies just below or just above  *)
(* (or, if it is exact, Python rounds to even), so either neighbour may    *)
(* come out: every rounding takes the outcome of a tie, 0 (down) or 1      *)
(* (up), as an argument drawn by the caller.  A rounded score is carried   *)
(* as an integer number of thousandths (1000 is 1.0).  Readability         *)
(* statistics are carried as integers in hundredths (2000 is grade         *)
(* 20.00), the precision the result record keeps.                          *)
(*                                                                         *)
(* Text.  A sanitized text is abstracted by what the pipeline observes of  *)
(* it: its character length, its number of whitespace-separated words,    *)
(* its number of keyword matches, the statistics textstat computes for it  *)
(* (or the fact that textstat raises on it) and, the scores being          *)
(* functions of the text, the outcomes of ties in the roundings of its     *)
(* three scores.                                                           *)
(***************************************************************************)
EXTENDS Integers, Sequences, FiniteSets, TLC

VARIABLES
    pc,         \* position of main(): which call comes next, "done" after
                \* it returned, "raised" after an exception left it uncaught;
                \* of a client of the class: "idle" between its calls
    idx,        \* analyze_all: number of policies already iterated over
    fetched,    \* what extract_text_from_url was called on and returned, in order
    results,    \* self.results
    clock,      \* logical wall clock read by datetime.now()
    report,     \* what generate_report returned / printed last
    saved,      \* the records save_results wrote to the CSV and JSON files
    call,       \* unit harness: the scoring function called and its arguments
    ret,        \* unit harness: the value the call returned
    returned    \* unit harness: whether the call has returned

vars == <<pc, idx, fetched, results, clock, report, saved, call, ret, returned>>

pipeVars == <<pc, idx, fetched, results, clock, report, saved>>
unitVars == <<call, ret, returned>>

-----------------------------------------------------------------------------
(* Scales and program constants                                            *)

\* round(score, 3): scores are integers in units of 1/1000
ScoreScale == 1000
\* round(metrics[...], 2): statistics are integers in units of 1/100
StatScale == 100

\* upper clamp of the Flesch reading ease, min(100, ...)
EaseCap == 100
\* "cap at grade 20", also the divisor of the grade normalisation
GradeCap == 20
\* number of normalised readability terms averaged
ReadTerms == 3
\* "Rough estimate: 5 chars per word"
CharsPerWord == 5
\* mentions per 1000 words
PerWords == 1000
\* lower end of the optimal range of mentions per 1000 words
LowMentions == 5
\* upper end of the optimal range of mentions per 1000 words
HighMentions == 15
\* divisor of the linear decay above the optimal range
DecaySpan == 20
\* len(text) < 100: no readability metrics
MinTextLen == 100

-----------------------------------------------------------------------------
(* Exact rational arithmetic standing for float arithmetic                 *)

Abs(n) == IF n < 0 THEN -n ELSE n

RECURSIVE GCD(_, _)
GCD(a, b) == IF b = 0 THEN a ELSE GCD(b, a % b)

\* the rational n/d, d > 0, in lowest terms
Rat(n, d) ==
    LET g == GCD(Abs(n), d)
    IN  <<n \div g, d \div g>>

FromInt(n) == <<n, 1>>

RAdd(a, b) == Rat(a[1] * b[2] + b[1] * a[2], a[2] * b[2])
RSub(a, b) == Rat(a[1] * b[2] - b[1] * a[2], a[2] * b[2])
RMul(a, b) == Rat(a[1] * b[1], a[2] * b[2])
\* a / b for b # 0
RDiv(a, b) ==
    IF b[1] > 0 THEN Rat(a[1] * b[2], a[2] * b[1])
                ELSE Rat(-(a[1] * b[2]), -(a[2] * b[1]))
RLt(a, b) == a[1] * b[2] < b[1] * a[2]
RLe(a, b) == a[1] * b[2] <= b[1] * a[2]
\* Python's max(a, b) and min(a, b): the first argument wins a tie
RMax(a, b) == IF RLt(a, b) THEN b ELSE a
RMin(a, b) == IF RLt(b, a) THEN b ELSE a

\* the outcomes of rounding a value halfway between two neighbours
Ties == {0, 1}

\* round(x, ndigits) with scale = 10^ndigits: the nearest multiple of
\* 1/scale, in units of 1/scale; a value halfway goes down or up as tie says
Round(x, scale, tie) ==
    LET n == x[1] * scale
        q == n \div x[2]
        r == n % x[2]
    IN  IF 2 * r < x[2] THEN q
        ELSE IF 2 * r > x[2] THEN q + 1
        ELSE q + tie

\* the float a rounded score or statistic stands for
Score(s) == Rat(s, ScoreScale)
Stat(s) == Rat(s, StatScale)

-----------------------------------------------------------------------------
(* Python's None, and the shapes of the values passed around               *)

None == [kind |-> "None"]

\* an exception raised and not caught, in place of a returned value
Exception == [kind |-> "Exception"]

\* in place of its statistics: textstat raises on the text
Raises == [kind |-> "raises"]

\* the dict analyze_readability builds; the seven statistics no score
\* reads are tied to the grade level
MetricsOf(ease, grade, std) ==
    [kind |-> "dict",
     flesch_reading_ease |-> ease,
     flesch_kincaid_grade |-> grade,
     gunning_fog |-> grade,
     smog_index |-> grade,
     coleman_liau_index |-> grade,
     automated_readability_index |-> grade,
     dale_chall_readability_score |-> grade,
     difficult_words |-> 0,
     linsear_write_formula |-> grade,
     text_standard |-> std]

-----------------------------------------------------------------------------
(* calculate_read_score                                                    *)

\* Flesch reading ease on its 0-100 scale, divided by 100
flesch_normalized(metrics) ==
    RDiv(RMax(FromInt(0),
              RMin(FromInt(EaseCap), Stat(metrics.flesch_reading_ease))),
         FromInt(EaseCap))

\* mutant: the "1 -" is dropped, a higher grade scoring higher
grade_term_inverted(grade) ==
    RMax(FromInt(0),
         RDiv(RMin(Stat(grade), FromInt(GradeCap)), FromInt(GradeCap)))

\* max(0, 1 - (min(grade_level, 20) / 20))
grade_term(grade) ==
    RMax(FromInt(0),
         RSub(FromInt(1),
              RDiv(RMin(Stat(grade), FromInt(GradeCap)), FromInt(GradeCap))))

grade_normalized(metrics) == grade_term(metrics.flesch_kincaid_grade)

text_std_normalized(metrics) == grade_term(metrics.text_standard)

\* read_score before it is rounded: the average of the normalised scores
unrounded_read_score(metrics) ==
    RDiv(RAdd(RAdd(flesch_normalized(metrics), grade_normalized(metrics)),
              text_std_normalized(metrics)),
         FromInt(ReadTerms))

calculate_read_score(metrics, tie) ==
    IF metrics = None THEN 0
    ELSE Round(unrounded_read_score(metrics), ScoreScale, tie)

-----------------------------------------------------------------------------
(* calculate_third_score                                                   *)

\* mutant: the estimated word count is taken to be the character length
mentions_per_1000_chars(third_party_count, text_length) ==
    LET words == FromInt(text_length)
    IN  IF RLt(FromInt(0), words)
        THEN RMul(RDiv(FromInt(third_party_count), words), FromInt(PerWords))
        ELSE FromInt(0)

\* mutant: floor division, text_length // 5
words_floor_div(text_length) == FromInt(text_length \div CharsPerWord)

\* words = text_length / 5, the estimated word count
words_estimate(text_length) == RDiv(FromInt(text_length), FromInt(CharsPerWord))

\* mutant: add-one smoothing of the match count
mentions_per_1000_smoothed(third_party_count, text_length) ==
    IF RLt(FromInt(0), words_estimate(text_length))
    THEN RMul(RDiv(FromInt(third_party_count + 1), words_estimate(text_length)),
              FromInt(PerWords))
    ELSE FromInt(0)

\* (third_party_count / words) * 1000 if words > 0 else 0
mentions_per_1000(third_party_count, text_length) ==
    IF RLt(FromInt(0), words_estimate(text_length))
    THEN RMul(RDiv(FromInt(third_party_count), words_estimate(text_length)),
              FromInt(PerWords))
    ELSE FromInt(0)

\* mutant: the decay above the optimal range has no floor
decayed_unfloored(m) ==
    RSub(FromInt(1),
         RDiv(RSub(m, FromInt(HighMentions)), FromInt(DecaySpan)))

\* mutant: the decay is floored at 0 instead of 0.5
decayed_floor_zero(m) ==
    RMax(FromInt(0),
         RSub(FromInt(1),
              RDiv(RSub(m, FromInt(HighMentions)), FromInt(DecaySpan))))

\* max(0.5, 1.0 - ((mentions_per_1000 - 15) / 20))
decayed(m) ==
    RMax(Rat(1, 2),
         RSub(FromInt(1),
              RDiv(RSub(m, FromInt(HighMentions)), FromInt(DecaySpan))))

\* mutant: the score falls as the density rises towards the optimal range
rising_inverted(m) == RSub(FromInt(1), RDiv(m, FromInt(LowMentions)))

\* mentions_per_1000 / 5
rising(m) == RDiv(m, FromInt(LowMentions))

\* score before it is rounded, for text_length # 0
unrounded_third_score(third_party_count, text_length) ==
    LET m == mentions_per_1000(third_party_count, text_length)
    IN  IF RLt(m, FromInt(LowMentions)) THEN rising(m)
        ELSE IF RLe(m, FromInt(HighMentions)) THEN FromInt(1)
        ELSE decayed(m)

calculate_third_score(third_party_count, text_length, tie) ==
    IF text_length = 0 THEN 0
    ELSE Round(unrounded_third_score(third_party_count, text_length), ScoreScale, tie)

-----------------------------------------------------------------------------
(* calculate_p6_score                                                      *)

\* mutant: the weights of the three-term formula of the docstring
p6_docstring_weights(read_score, third_score, tie) ==
    Round(RAdd(RMul(Rat(33, 100), Score(read_score)),
               RMul(Rat(34, 100), Score(third_score))),
          ScoreScale, tie)

calculate_p6_score(read_score, third_score, tie) ==
    LET p6_score == RAdd(RMul(Rat(1, 2), Score(read_score)),
                         RMul(Rat(1, 2), Score(third_score)))
    IN  Round(p6_score, ScoreScale, tie)

-----------------------------------------------------------------------------
(* The pipeline of one document                                            *)

\* self.policies, in insertion order
policies ==
    <<[Platform |-> "Meta", URL |-> "https://www.facebook.com/privacy/policy/"],
      [Platform |-> "Google", URL |-> "https://policies.google.com/privacy"],
      [Platform |-> "Microsoft",
       URL |-> "https://privacy.microsoft.com/en-us/privacystatement"],
      [Platform |-> "Proton", URL |-> "https://proton.me/legal/privacy"]>>

\* a sanitized text, by what the pipeline observes of it
TextOf(len, words, mentions, stats, ties) ==
    [kind |-> "str", len |-> len, words |-> words, mentions |-> mentions,
     stats |-> stats, ties |-> ties]

\* a text given by its characters, one-character strings
\* the lower-case letter of each upper-case letter
LowerOf ==
    "A" :> "a" @@ "B" :> "b" @@ "C" :> "c" @@ "D" :> "d" @@ "E" :> "e" @@ "F" :> "f" @@
    "G" :> "g" @@ "H" :> "h" @@ "I" :> "i" @@ "J" :> "j" @@ "K" :> "k" @@ "L" :> "l" @@
    "M" :> "m" @@ "N" :> "n" @@ "O" :> "o" @@ "P" :> "p" @@ "Q" :> "q" @@ "R" :> "r" @@
    "S" :> "s" @@ "T" :> "t" @@ "U" :> "u" @@ "V" :> "v" @@ "W" :> "w" @@ "X" :> "x" @@
    "Y" :> "y" @@ "Z" :> "z"

lower_char(c) == IF c \in DOMAIN LowerOf THEN LowerOf[c] ELSE c

\* str.lower()
lower(str) == [k \in 1..Len(str) |-> lower_char(str[k])]

\* "Keywords indicating third-party sharing"
keywords ==
    <<<<"t", "h", "i", "r", "d", " ", "p", "a", "r", "t", "y">>,
      <<"t", "h", "i", "r", "d", "-", "p", "a", "r", "t", "y">>,
      <<"p", "a", "r", "t", "n", "e", "r", "s">>,
      <<"a", "f", "f", "i", "l", "i", "a", "t", "e", "s">>,
      <<"s", "h", "a", "r", "e", " ", "w", "i", "t", "h">>,
      <<"d", "i", "s", "c", "l", "o", "s", "e", " ", "t", "o">>,
      <<"s", "e", "l", "l">>,
      <<"t", "r", "a", "n", "s", "f", "e", "r">>,
      <<"a", "d", "v", "e", "r", "t", "i", "s", "e", "r", "s">>,
      <<"s", "e", "r", "v", "i", "c", "e", " ", "p", "r", "o", "v", "i", "d", "e", "r", "s">>,
      <<"v", "e", "n", "d", "o", "r", "s">>>>

\* str.count(sub) on str[p:]: the occurrences of sub found scanning from
\* the left, the scan going on after the end of each occurrence found
RECURSIVE count(_, _, _)
count(str, sub, p) ==
    IF p + Len(sub) - 1 > Len(str) THEN 0
    ELSE IF SubSeq(str, p, p + Len(sub) - 1) = sub
         THEN 1 + count(str, sub, p + Len(sub))
         ELSE count(str, sub, p + 1)

\* sum(text_lower.count(keyword) for keyword in keywords), over keywords[k..]
RECURSIVE count_sum(_, _)
count_sum(text_lower, k) ==
    IF k > Len(keywords) THEN 0
    ELSE count(text_lower, keywords[k], 1) + count_sum(text_lower, k + 1)

\* the count of a non-empty text given by its characters
keyword_count(chars) == count_sum(lower(chars), 1)

\* the text of the given characters, by what analyze_third_party_mentions
\* observes of it
TextOfChars(chars) ==
    [kind |-> "str", len |-> Len(chars), chars |-> chars,
     mentions |-> keyword_count(chars)]

\* "not text": None or the empty string
Falsy(text) == text = None \/ text.len = 0

\* mutant: the test of the length is dropped
analyze_readability_no_minimum(text) ==
    IF Falsy(text) THEN None
    ELSE IF text.stats = Raises THEN Exception
    ELSE text.stats

\* mutant: a statistic is left out of the dict
analyze_readability_partial(text) ==
    IF Falsy(text) \/ text.len < MinTextLen THEN None
    ELSE IF text.stats = Raises THEN Exception
    ELSE [f \in (DOMAIN text.stats) \ {"smog_index"} |-> text.stats[f]]

\* None for a text absent or too short; else the dict of the ten statistics,
\* unless a textstat call raises, which nothing here catches
analyze_readability(text) ==
    IF Falsy(text) \/ text.len < MinTextLen THEN None
    ELSE IF text.stats = Raises THEN Exception
    ELSE text.stats

analyze_third_party_mentions(text) ==
    IF Falsy(text) THEN 0 ELSE text.mentions

\* round(metrics[...], 2) of a statistic held in hundredths
Round2(stat) == Round(Stat(stat), StatScale, 0)

\* mutant: the match count is kept on the object and not reset, one match
\* being carried over per earlier call
analyze_platform_count_kept(platform_name, url, text, now) ==
    IF Falsy(text) THEN None
    ELSE LET text_length == text.len
             word_count == text.words
             metrics == analyze_readability(text)
         IN  IF metrics = Exception THEN Exception
             ELSE IF metrics = None THEN None
             ELSE LET third_party_count ==
                          analyze_third_party_mentions(text) + (now - 1)
                      read_score == calculate_read_score(metrics, text.ties[1])
                      third_score ==
                          calculate_third_score(third_party_count, text_length,
                                                text.ties[2])
                      p6_score ==
                          calculate_p6_score(read_score, third_score, text.ties[3])
                  IN  [Platform |-> platform_name,
                       URL |-> url,
                       Analysis_Date |-> now,
                       Word_Count |-> word_count,
                       Character_Count |-> text_length,
                       Flesch_Reading_Ease |-> Round2(metrics.flesch_reading_ease),
                       Flesch_Kincaid_Grade |-> Round2(metrics.flesch_kincaid_grade),
                       Gunning_Fog |-> Round2(metrics.gunning_fog),
                       Text_Standard |-> Round2(metrics.text_standard),
                       Third_Party_Mentions |-> third_party_count,
                       READ_Score |-> read_score,
                       THIRD_Score |-> third_score,
                       P6_Score |-> p6_score]

\* analyze_platform, given what extract_text_from_url returned and the time
\* datetime.now() reads: None, the result dict, or Exception when the
\* exception of analyze_readability passes through
analyze_platform(platform_name, url, text, now) ==
    IF Falsy(text) THEN None
    ELSE LET text_length == text.len
             word_count == text.words
             metrics == analyze_readability(text)
         IN  IF metrics = Exception THEN Exception
             ELSE IF metrics = None THEN None
             ELSE LET third_party_count == analyze_third_party_mentions(text)
                      read_score == calculate_read_score(metrics, text.ties[1])
                      third_score ==
                          calculate_third_score(third_party_count, text_length,
                                                text.ties[2])
                      p6_score ==
                          calculate_p6_score(read_score, third_score, text.ties[3])
                  IN  [Platform |-> platform_name,
                       URL |-> url,
                       Analysis_Date |-> now,
                       Word_Count |-> word_count,
                       Character_Count |-> text_length,
                       Flesch_Reading_Ease |-> Round2(metrics.flesch_reading_ease),
                       Flesch_Kincaid_Grade |-> Round2(metrics.flesch_kincaid_grade),
                       Gunning_Fog |-> Round2(metrics.gunning_fog),
                       Text_Standard |-> Round2(metrics.text_standard),
                       Third_Party_Mentions |-> third_party_count,
                       READ_Score |-> read_score,
                       THIRD_Score |-> third_score,
                       P6_Score |-> p6_score]

-----------------------------------------------------------------------------
(* Unit harness: one call of one scoring function on drawn arguments       *)

\* readability statistics, in hundredths: ease -20.00 .. 120.00 and grades
\* -6.02 .. 24.08 on a grid, so both clamps are crossed on both sides; the
\* odd step of the grades makes some averages fall halfway between two
\* thousandths
EaseStep == 2000
MaxEaseBelow == 1
MaxEaseAbove == 6
GradeStep == 301
MaxGradeBelow == 2
MaxGradeAbove == 8

EaseValues == {EaseStep * k : k \in (-MaxEaseBelow)..MaxEaseAbove}
GradeValues == {GradeStep * k : k \in (-MaxGradeBelow)..MaxGradeAbove}

MetricsValues ==
    {MetricsOf(e, g, t) : e \in EaseValues, g \in GradeValues, t \in GradeValues}

\* match counts and character lengths: lengths 0 .. 12001 on a grid with
\* neighbours one character apart; on multiples of 800 the densities hit
\* both ends of the optimal range (4 and 12 matches in 4000 characters) and
\* scores halfway between two thousandths (3 matches in 800 characters)
MaxCount == 12
LenStep == 800
MaxLenK == 15
MaxLenOff == 1

Counts == 0..MaxCount
Lengths == {LenStep * k + j : k \in 0..MaxLenK, j \in 0..MaxLenOff}

\* sub-scores in [0,1], in thousandths, on a grid holding odd and even values
SubScoreStep == 50
MaxSubScoreK == 20
MaxSubScoreOff == 1

SubScores ==
    {s \in {SubScoreStep * k + j : k \in 0..MaxSubScoreK, j \in 0..MaxSubScoreOff} :
        s <= ScoreScale}

NoCall == [fn |-> "none"]

ReadCalls ==
    {[fn |-> "calculate_read_score", metrics |-> m, tie |-> x] :
        m \in MetricsValues \cup {None}, x \in Ties}

ThirdCalls ==
    {[fn |-> "calculate_third_score", third_party_count |-> c, text_length |-> l,
      tie |-> x] :
        c \in Counts, l \in Lengths, x \in Ties}

P6Calls ==
    {[fn |-> "calculate_p6_score", read_score |-> r, third_score |-> t, tie |-> x] :
        r \in SubScores, t \in SubScores, x \in Ties}

CallReadScore ==
    /\ call.fn = "calculate_read_score"
    /\ ~returned
    /\ ret' = calculate_read_score(call.metrics, call.tie)
    /\ returned' = TRUE
    /\ UNCHANGED <<call, pipeVars>>

CallThirdScore ==
    /\ call.fn = "calculate_third_score"
    /\ ~returned
    /\ ret' = calculate_third_score(call.third_party_count, call.text_length, call.tie)
    /\ returned' = TRUE
    /\ UNCHANGED <<call, pipeVars>>

CallP6Score ==
    /\ call.fn = "calculate_p6_score"
    /\ ~returned
    /\ ret' = calculate_p6_score(call.read_score, call.third_score, call.tie)
    /\ returned' = TRUE
    /\ UNCHANGED <<call, pipeVars>>

\* texts given by their characters: up to MaxChunks pieces, among them the
\* parts of keywords that run into each other and keywords in capitals
MaxChunks == 3

Chunks ==
    {<<"p", "a", "r", "t", "n", "e", "r">>,
     <<"s">>,
     <<"e", "l", "l">>,
     <<"S", "E", "L", "L">>,
     <<" ">>,
     <<"s", "e", "r", "v", "i", "c", "e", " ", "p", "r", "o", "v", "i", "d", "e", "r">>,
     <<"T", "h", "i", "r", "d", "-", "P", "a", "r", "t", "y">>,
     <<"x">>}

RECURSIVE Concatenations(_)
Concatenations(n) ==
    IF n = 0 THEN {<<>>}
    ELSE LET shorter == Concatenations(n - 1)
         IN  shorter \cup {s \o c : s \in shorter, c \in Chunks}

MentionCalls ==
    {[fn |-> "analyze_third_party_mentions", text |-> t] :
        t \in {None} \cup {TextOfChars(c) : c \in Concatenations(MaxChunks)}}

CallThirdPartyMentions ==
    /\ call.fn = "analyze_third_party_mentions"
    /\ ~returned
    /\ ret' = analyze_third_party_mentions(call.text)
    /\ returned' = TRUE
    /\ UNCHANGED <<call, pipeVars>>

PipeIdle ==
    /\ pc = "analyze_all"
    /\ idx = 0
    /\ fetched = <<>>
    /\ results = <<>>
    /\ clock = 0
    /\ report = None
    /\ saved = None

InitScore ==
    /\ PipeIdle
    /\ call \in ReadCalls \cup ThirdCalls \cup P6Calls \cup MentionCalls
    /\ ret = 0
    /\ returned = FALSE

NextScore == CallReadScore \/ CallThirdScore \/ CallP6Score \/ CallThirdPartyMentions

SpecScore == InitScore /\ [][NextScore]_vars

ReadReturned == call.fn = "calculate_read_score" /\ returned
ThirdReturned == call.fn = "calculate_third_score" /\ returned
P6Returned == call.fn = "calculate_p6_score" /\ returned
MentionsReturned == call.fn = "analyze_third_party_mentions" /\ returned

-----------------------------------------------------------------------------
(* The batch run of main()                                                 *)

\* the texts a fetch may yield.  Short texts around the 100-character
\* threshold, and long texts of LongDocWords words whose words take 6, 12,
\* ... characters each, the separating space included; each holds
\* DocMentions keyword matches where they fit.
LongDocWords == 1000
MaxWidthExp == 1
DocMentions == 10

RECURSIVE Pow2(_)
Pow2(k) == IF k = 0 THEN 1 ELSE 2 * Pow2(k - 1)

ShortLens == {0, MinTextLen - 1, MinTextLen}
LongLens == {LongDocWords * 6 * Pow2(k) - 1 : k \in 0..MaxWidthExp}

\* words of a short text: a single unbroken word, the fewest a sanitized
\* text that is not empty can hold, having no white space at its ends
ShortWords(len) == IF len = 0 THEN 0 ELSE 1

\* the statistics of an easy text (short sentences of short words), of a
\* text of middling difficulty and of a hard one
DocStats ==
    {MetricsOf(EaseStep * MaxEaseAbove, -GradeStep, 0),
     MetricsOf(EaseStep * 2, GradeStep * 4, GradeStep * 4),
     MetricsOf(-(EaseStep * MaxEaseBelow), GradeStep * MaxGradeAbove,
               GradeStep * MaxGradeAbove)}

\* a keyword match takes at least 4 characters, so the empty text has none
MentionsIn(len) == IF 4 * DocMentions <= len THEN DocMentions ELSE 0

\* the statistics of a text below the threshold, which nothing computes
ShortStats == MetricsOf(0, 0, 0)

NoTies == <<0, 0, 0>>

\* texts below the threshold; texts on or above it, with the statistics
\* textstat computes for them; and such texts on which textstat raises
ShortTexts ==
    {TextOf(l, ShortWords(l), MentionsIn(l), ShortStats, NoTies) :
        l \in {n \in ShortLens : n < MinTextLen}}

ScoredTexts ==
    {TextOf(l, ShortWords(l), MentionsIn(l), s, x) :
        l \in {n \in ShortLens : n >= MinTextLen}, s \in DocStats,
        x \in Ties \X Ties \X Ties}
        \cup {TextOf(l, LongDocWords, MentionsIn(l), s, x) :
                  l \in LongLens, s \in DocStats, x \in Ties \X Ties \X Ties}

RaisingTexts ==
    {TextOf(l, ShortWords(l), MentionsIn(l), Raises, NoTies) :
        l \in {n \in ShortLens : n >= MinTextLen}}
        \cup {TextOf(l, LongDocWords, MentionsIn(l), Raises, NoTies) : l \in LongLens}

\* a text says how a tie comes out only for a rounding of its that is a tie
TiesMatter(text) ==
    \A k \in 1..3 :
        text.ties[k] = 1 =>
            analyze_platform("", "", text, 0)
                # analyze_platform("", "", [text EXCEPT !.ties[k] = 0], 0)

Texts == ShortTexts \cup {t \in ScoredTexts : TiesMatter(t)} \cup RaisingTexts

\* extract_text_from_url: the sanitized text, or None when the fetch fails
FetchOutcomes == {None} \cup Texts

Init ==
    /\ pc = "analyze_all"
    /\ idx = 0
    /\ fetched = <<>>
    /\ results = <<>>
    /\ clock = 0
    /\ report = None
    /\ saved = None
    /\ call = NoCall
    /\ ret = 0
    /\ returned = FALSE

\* what analyze_platform may return for the i-th policy at time now, over
\* every outcome of the fetch
Analyses ==
    {[i |-> i, now |-> now, text |-> text,
      result |-> analyze_platform(policies[i].Platform, policies[i].URL, text, now)] :
        i \in 1..Len(policies), now \in 1..Len(policies), text \in FetchOutcomes}

\* mutant: the result is appended without the test
append_always(list, result) == Append(list, result)

\* if result: self.results.append(result)
append_if_result(list, result) ==
    IF result # None THEN Append(list, result) ELSE list

\* one iteration of the loop of analyze_all; an exception analyze_platform
\* lets through leaves the loop, analyze_all and main
AnalyzePlatform ==
    /\ pc = "analyze_all"
    /\ idx < Len(policies)
    /\ \E a \in Analyses :
           /\ a.i = idx + 1
           /\ a.now = clock + 1
           /\ fetched' = Append(fetched, [url |-> policies[a.i].URL, text |-> a.text])
           /\ IF a.result = Exception
              THEN /\ pc' = "raised"
                   /\ UNCHANGED <<idx, results>>
              ELSE /\ results' = append_if_result(results, a.result)
                   /\ idx' = idx + 1
                   /\ pc' = pc
    /\ clock' = clock + 1
    /\ UNCHANGED <<report, saved, unitVars>>

\* analyze_all returns self.results
AnalyzeAllReturn ==
    /\ pc = "analyze_all"
    /\ idx = Len(policies)
    /\ pc' = "generate_report"
    /\ UNCHANGED <<idx, fetched, results, clock, report, saved, unitVars>>

GenerateReport ==
    /\ pc = "generate_report"
    /\ report' = IF results = <<>>
                 THEN [kind |-> "printed", text |-> "No results to report"]
                 ELSE [kind |-> "DataFrame", rows |-> results]
    /\ pc' = "save_results"
    /\ UNCHANGED <<idx, fetched, results, clock, saved, unitVars>>

SaveResults ==
    /\ pc = "save_results"
    /\ saved' = IF results = <<>>
                THEN [kind |-> "printed", text |-> "No results to save"]
                ELSE [kind |-> "files", rows |-> results]
    /\ pc' = "complete"
    /\ UNCHANGED <<idx, fetched, results, clock, report, unitVars>>

\* main prints "ANALYSIS COMPLETE" and returns
Complete ==
    /\ pc = "complete"
    /\ pc' = "done"
    /\ UNCHANGED <<idx, fetched, results, clock, report, saved, unitVars>>

Next == AnalyzePlatform \/ AnalyzeAllReturn \/ GenerateReport \/ SaveResults \/ Complete

Spec == Init /\ [][Next]_vars

-----------------------------------------------------------------------------
(* One analyzer used by a client that calls analyze_all, generate_report,  *)
(* save_results and the scoring functions in any order                     *)

\* analyze_all may be called while the clock has not passed MaxStartClock
MaxStartClock == 4

\* what a fetch that succeeds yields in these runs: a text of 100
\* characters, with its statistics or with textstat raising on it
CallStats == {s \in DocStats : s.flesch_kincaid_grade < 0}

CallTexts ==
    {TextOf(MinTextLen, ShortWords(MinTextLen), MentionsIn(MinTextLen), s, NoTies) :
        s \in CallStats \cup {Raises}}

CallAnalyses ==
    {[i |-> i, now |-> now, text |-> text,
      result |-> analyze_platform(policies[i].Platform, policies[i].URL, text, now)] :
        i \in 1..Len(policies), now \in 1..(MaxStartClock + Len(policies)),
        text \in {None} \cup CallTexts}

\* the scoring calls the client makes
ScoringSamples ==
    {c \in ReadCalls : c.metrics = None /\ c.tie = 0}
        \cup {c \in ThirdCalls : c.third_party_count = 0 /\ c.text_length = 0 /\ c.tie = 0}
        \cup {c \in P6Calls : c.read_score = 0 /\ c.third_score = 0 /\ c.tie = 0}

InitCalls ==
    /\ pc = "idle"
    /\ idx = 0
    /\ fetched = <<>>
    /\ results = <<>>
    /\ clock = 0
    /\ report = None
    /\ saved = None
    /\ call = NoCall
    /\ ret = 0
    /\ returned = FALSE

\* mutant: analyze_all starts from an empty list, self.results = []
ClientAnalyzeAll_clearing ==
    /\ pc = "idle"
    /\ call = NoCall
    /\ clock <= MaxStartClock
    /\ pc' = "in_analyze_all"
    /\ idx' = 0
    /\ results' = <<>>
    /\ UNCHANGED <<fetched, clock, report, saved, unitVars>>

\* the client calls analyze_all: the loop starts over self.policies
ClientAnalyzeAll ==
    /\ pc = "idle"
    /\ call = NoCall
    /\ clock <= MaxStartClock
    /\ pc' = "in_analyze_all"
    /\ idx' = 0
    /\ UNCHANGED <<fetched, results, clock, report, saved, unitVars>>

\* one iteration of the loop of analyze_all; an exception analyze_platform
\* lets through leaves analyze_all and reaches the client, which goes on
ClientAnalyzePlatform ==
    /\ pc = "in_analyze_all"
    /\ idx < Len(policies)
    /\ \E a \in CallAnalyses :
           /\ a.i = idx + 1
           /\ a.now = clock + 1
           /\ fetched' = Append(fetched, [url |-> policies[a.i].URL, text |-> a.text])
           /\ IF a.result = Exception
              THEN /\ pc' = "idle"
                   /\ UNCHANGED <<idx, results>>
              ELSE /\ results' = append_if_result(results, a.result)
                   /\ idx' = idx + 1
                   /\ pc' = pc
    /\ clock' = clock + 1
    /\ UNCHANGED <<report, saved, unitVars>>

\* analyze_all returns self.results to the client
ClientAnalyzeAllReturn ==
    /\ pc = "in_analyze_all"
    /\ idx = Len(policies)
    /\ pc' = "idle"
    /\ UNCHANGED <<idx, fetched, results, clock, report, saved, unitVars>>

\* the client calls generate_report
ClientGenerateReport ==
    /\ pc = "idle"
    /\ call = NoCall
    /\ report' = IF results = <<>>
                 THEN [kind |-> "printed", text |-> "No results to report"]
                 ELSE [kind |-> "DataFrame", rows |-> results]
    /\ UNCHANGED <<pc, idx, fetched, results, clock, saved, unitVars>>

\* the client calls save_results
ClientSaveResults ==
    /\ pc = "idle"
    /\ call = NoCall
    /\ saved' = IF results = <<>>
                THEN [kind |-> "printed", text |-> "No results to save"]
                ELSE [kind |-> "files", rows |-> results]
    /\ UNCHANGED <<pc, idx, fetched, results, clock, report, unitVars>>

\* the client calls a scoring function, which CallReadScore, CallThirdScore
\* or CallP6Score then runs, and takes the value returned
ClientCallsScoring ==
    /\ pc = "idle"
    /\ call = NoCall
    /\ call' \in ScoringSamples
    /\ UNCHANGED <<ret, returned, pipeVars>>

ClientTakesScore ==
    /\ pc = "idle"
    /\ returned
    /\ call' = NoCall
    /\ ret' = 0
    /\ returned' = FALSE
    /\ UNCHANGED pipeVars

NextCalls ==
    \/ ClientAnalyzeAll \/ ClientAnalyzePlatform \/ ClientAnalyzeAllReturn
    \/ ClientGenerateReport \/ ClientSaveResults
    \/ ClientCallsScoring \/ CallReadScore \/ CallThirdScore \/ CallP6Score
    \/ ClientTakesScore

SpecCalls == InitCalls /\ [][NextCalls]_vars

-----------------------------------------------------------------------------
(* Properties of the scoring functions, under SpecScore                    *)

Clamp(x, lo, hi) == IF x < lo THEN lo ELSE IF x > hi THEN hi ELSE x

\* the other arguments of calculate_third_score with a density defined
OtherThirdArgs == {a \in Counts \X Lengths \X Ties : a[2] > 0}

\* C1: for every metrics record, negative and out-of-range values
\* included, calculate_read_score returns a value in [0,1].
C1_ReadScoreInUnitInterval ==
    ReadReturned => (0 <= ret /\ ret <= 1000)

\* C2: for every match count >= 0 and every character length >= 0,
\* calculate_third_score returns a value in [0,1].
C2_ThirdScoreInUnitInterval ==
    ThirdReturned => (0 <= ret /\ ret <= 1000)

\* a density above 25 per 1000 words, where the unfloored decay is below 0.5
C2_Witness ==
    /\ ThirdReturned
    /\ call.text_length > 0
    /\ 5000 * call.third_party_count > 25 * call.text_length
    /\ ret = 500

\* C4: calculate_read_score is, up to the rounding to 3 decimals, the mean
\* of clamp(ease,0,100)/100, 1 - clamp(grade,0,20)/20 and
\* 1 - clamp(text_standard,0,20)/20.  In hundredths the mean is
\* (e + 5*(2000 - g) + 5*(2000 - t)) / 30000.
C4_ReadScoreIsMeanOfClampedTerms ==
    (ReadReturned /\ call.metrics # None) =>
        LET e == Clamp(call.metrics.flesch_reading_ease, 0, 10000)
            g == Clamp(call.metrics.flesch_kincaid_grade, 0, 2000)
            t == Clamp(call.metrics.text_standard, 0, 2000)
            mean30000 == e + 5 * (2000 - g) + 5 * (2000 - t)
        IN  Abs(30 * ret - mean30000) <= 15

\* C5: for length > 0, calculate_third_score is, up to the rounding to 3
\* decimals, d/5 when d < 5, 1.0 when 5 <= d <= 15 and
\* max(0.5, 1 - (d - 15)/20) when d > 15, for d = count / (length/5) * 1000,
\* that is d = n/l with n = 5000 * count.
C5_ThirdScoreIsPiecewise ==
    (ThirdReturned /\ call.text_length > 0) =>
        LET l == call.text_length
            n == 5000 * call.third_party_count
            top == IF 10 * l > 35 * l - n THEN 10 * l ELSE 35 * l - n
        IN  IF n < 5 * l THEN 2 * Abs(5 * l * ret - 1000 * n) <= 5 * l
            ELSE IF n <= 15 * l THEN ret = 1000
            ELSE 2 * Abs(20 * l * ret - 1000 * top) <= 20 * l

\* a density strictly between 0 and 5 that is no multiple of 0.005
C5_Witness ==
    /\ ThirdReturned
    /\ call.text_length > 0
    /\ call.third_party_count > 0
    /\ 5000 * call.third_party_count < 5 * call.text_length
    /\ (1000 * 5000 * call.third_party_count) % (5 * call.text_length) # 0
    /\ 0 < ret /\ ret < 1000

\* C7 as claimed: for densities d1 < d2 < 5 the score returned for d1 is
\* strictly less than the score returned for d2.
C7_StrictlyIncreasingBelowLow ==
    (ThirdReturned /\ call.text_length > 0) =>
        \A a \in OtherThirdArgs :
            (/\ call.third_party_count * a[2] < a[1] * call.text_length
             /\ 1000 * a[1] < a[2])
                => ret < calculate_third_score(a[1], a[2], a[3])

\* C7 as amended: for densities d1 < d2 < 5 the score returned for d1 is at
\* most the score returned for d2, and strictly less when d2 - d1 > 0.005
\* (the unrounded scores are more than 0.001 apart).
C7_NonDecreasingBelowLow ==
    (ThirdReturned /\ call.text_length > 0) =>
        \A a \in OtherThirdArgs :
            (/\ call.third_party_count * a[2] < a[1] * call.text_length
             /\ 1000 * a[1] < a[2])
                => LET gap == a[1] * call.text_length - call.third_party_count * a[2]
                       s2 == calculate_third_score(a[1], a[2], a[3])
                   IN  /\ ret <= s2
                       /\ gap > (call.text_length * a[2]) \div 1000000 => ret < s2

\* a call below the threshold with a higher density below the threshold that
\* scores the same, and another that scores strictly more
C7_Witness ==
    /\ ThirdReturned
    /\ call.text_length > 0
    /\ call.third_party_count > 0
    /\ \E a \in OtherThirdArgs :
           /\ call.third_party_count * a[2] < a[1] * call.text_length
           /\ 1000 * a[1] < a[2]
           /\ ret = calculate_third_score(a[1], a[2], a[3])
    /\ \E a \in OtherThirdArgs :
           /\ call.third_party_count * a[2] < a[1] * call.text_length
           /\ 1000 * a[1] < a[2]
           /\ ret < calculate_third_score(a[1], a[2], a[3])

\* Two calls whose unrounded scores u1 and u2 are the same value halfway
\* between two thousandths round as the floats f1 and f2 standing for it
\* lie.  Float arithmetic is monotone, so where the call of u2 is the one
\* the claim ranks no lower, f1 <= f2 and the outcomes of the ties satisfy
\* t1 <= t2; calls with different unrounded scores round independently.
TiesOrdered(u1, t1, u2, t2) == u1 = u2 => t1 <= t2

\* C8: above 15 mentions per 1000 words the score is non-increasing in the
\* density and never below 0.5, and every density >= 25 yields exactly 0.5.
C8_NonIncreasingAboveHigh ==
    (/\ ThirdReturned
     /\ call.text_length > 0
     /\ 5000 * call.third_party_count > 15 * call.text_length) =>
        /\ ret >= 500
        /\ 5000 * call.third_party_count >= 25 * call.text_length => ret = 500
        /\ \A a \in OtherThirdArgs :
               (/\ call.third_party_count * a[2] <= a[1] * call.text_length
                /\ TiesOrdered(unrounded_third_score(a[1], a[2]), a[3],
                               unrounded_third_score(call.third_party_count,
                                                     call.text_length), call.tie))
                   => calculate_third_score(a[1], a[2], a[3]) <= ret

\* a density on the decaying stretch, 15 < d < 25, with a higher density
\* that scores strictly less
C8_Witness ==
    /\ ThirdReturned
    /\ call.text_length > 0
    /\ 5000 * call.third_party_count > 15 * call.text_length
    /\ 5000 * call.third_party_count < 25 * call.text_length
    /\ 500 < ret /\ ret < 1000
    /\ \E a \in OtherThirdArgs :
           /\ call.third_party_count * a[2] < a[1] * call.text_length
           /\ calculate_third_score(a[1], a[2], a[3]) < ret

\* C9: holding the other two inputs fixed, calculate_read_score is
\* non-decreasing in the ease score and non-increasing in the grade level
\* and in the combined grade estimate, out-of-range values included.
C9_ReadScoreMonotone ==
    (ReadReturned /\ call.metrics # None) =>
        LET m == call.metrics
            u == unrounded_read_score(m)
        IN  /\ \A e \in EaseValues, x \in Ties :
                   LET m2 == [m EXCEPT !.flesch_reading_ease = e]
                   IN  (/\ e >= m.flesch_reading_ease
                        /\ TiesOrdered(u, call.tie, unrounded_read_score(m2), x))
                           => calculate_read_score(m2, x) >= ret
            /\ \A g \in GradeValues, x \in Ties :
                   LET m2 == [m EXCEPT !.flesch_kincaid_grade = g]
                   IN  (/\ g >= m.flesch_kincaid_grade
                        /\ TiesOrdered(unrounded_read_score(m2), x, u, call.tie))
                           => calculate_read_score(m2, x) <= ret
            /\ \A t \in GradeValues, x \in Ties :
                   LET m2 == [m EXCEPT !.text_standard = t]
                   IN  (/\ t >= m.text_standard
                        /\ TiesOrdered(unrounded_read_score(m2), x, u, call.tie))
                           => calculate_read_score(m2, x) <= ret

\* a record inside the ranges, for which raising the ease raises the score
\* and raising either grade lowers it
C9_Witness ==
    /\ ReadReturned
    /\ call.metrics # None
    /\ LET m == call.metrics
       IN  /\ \E e \in EaseValues, x \in Ties :
                  /\ e > m.flesch_reading_ease
                  /\ calculate_read_score([m EXCEPT !.flesch_reading_ease = e], x) > ret
           /\ \E g \in GradeValues, x \in Ties :
                  /\ g > m.flesch_kincaid_grade
                  /\ calculate_read_score([m EXCEPT !.flesch_kincaid_grade = g], x) < ret
           /\ \E t \in GradeValues, x \in Ties :
                  /\ t > m.text_standard
                  /\ calculate_read_score([m EXCEPT !.text_standard = t], x) < ret

\* C10: calculate_p6_score(read, third) is 0.5*read + 0.5*third rounded to 3
\* decimals (within half a thousandth of the exact value), and 0.8 and 1.0
\* give 0.900.
C10_P6IsRoundedHalfSum ==
    P6Returned =>
        /\ Abs(2 * ret - (call.read_score + call.third_score)) <= 1
        /\ (call.read_score = 800 /\ call.third_score = 1000) => ret = 900

C10_Witness ==
    /\ P6Returned
    /\ call.read_score = 800
    /\ call.third_score = 1000
    /\ ret = 900

\* C11: zero disclosure matches in a non-empty document give a THIRD score
\* of exactly 0.0, for every character length > 0.
C11_ZeroMatchesScoreZero ==
    (ThirdReturned /\ call.third_party_count = 0 /\ call.text_length > 0)
        => ret = 0

\* zero matches in a long document, while one match in it scores above 0
C11_Witness ==
    /\ ThirdReturned
    /\ call.third_party_count = 0
    /\ call.text_length >= LenStep * MaxLenK
    /\ ret = 0
    /\ calculate_third_score(1, call.text_length, call.tie) > 0

\* C19: calculate_third_score never divides by zero: a call that gets past
\* the test of the length, and so computes the density, has an estimated
\* word count > 0, and a length of 0 gives the value 0.0 for every count.
C19_NoDivisionByZero ==
    ThirdReturned =>
        /\ call.text_length = 0 => ret = 0
        /\ call.text_length # 0 =>
               RLt(FromInt(0), words_estimate(call.text_length))

\* a length of 0 with matches counted, and a length of 1
C19_Witness ==
    /\ ThirdReturned
    /\ \/ call.text_length = 0 /\ call.third_party_count > 0 /\ ret = 0
       \/ call.text_length = 1 /\ call.third_party_count > 0

\* keyword k occurs in str at position p, whatever the case of the letters
OccursAt(str, k, p) ==
    /\ p + Len(keywords[k]) - 1 <= Len(str)
    /\ \A q \in 1..Len(keywords[k]) : lower_char(str[p + q - 1]) = keywords[k][q]

\* every occurrence of every keyword in str
Occurrences(str) ==
    {o \in (1..Len(keywords)) \X (1..Len(str)) : OccursAt(str, o[1], o[2])}

\* the upper-case letter of each lower-case letter
UpperOf ==
    "a" :> "A" @@ "b" :> "B" @@ "c" :> "C" @@ "d" :> "D" @@ "e" :> "E" @@ "f" :> "F" @@
    "g" :> "G" @@ "h" :> "H" @@ "i" :> "I" @@ "j" :> "J" @@ "k" :> "K" @@ "l" :> "L" @@
    "m" :> "M" @@ "n" :> "N" @@ "o" :> "O" @@ "p" :> "P" @@ "q" :> "Q" @@ "r" :> "R" @@
    "s" :> "S" @@ "t" :> "T" @@ "u" :> "U" @@ "v" :> "V" @@ "w" :> "W" @@ "x" :> "X" @@
    "y" :> "Y" @@ "z" :> "Z"

upper_char(c) == IF c \in DOMAIN UpperOf THEN UpperOf[c] ELSE c
upper(str) == [k \in 1..Len(str) |-> upper_char(str[k])]

\* str with the case of its letters changed: all lower, all upper, swapped
CaseChanges(str) ==
    {lower(str), upper(str),
     [k \in 1..Len(str) |-> IF str[k] \in DOMAIN LowerOf THEN LowerOf[str[k]]
                           ELSE upper_char(str[k])]}

\* C20: analyze_third_party_mentions returns the number of occurrences, as
\* substrings and whatever the case, of every keyword in the text, each
\* occurrence counted for its keyword: a number >= 0, 0 for a text absent or
\* empty, and the same for the text with the case of its letters changed.
C20_MentionsCountEveryOccurrence ==
    MentionsReturned =>
        /\ ret >= 0
        /\ Falsy(call.text) => ret = 0
        /\ ~Falsy(call.text) =>
               /\ ret = Cardinality(Occurrences(call.text.chars))
               /\ \A v \in CaseChanges(call.text.chars) :
                      analyze_third_party_mentions(TextOfChars(v)) = ret

-----------------------------------------------------------------------------
(* Properties of the batch run, under Spec                                 *)

\* C3: every result record analyze_platform returns, and analyze_all
\* stores, has a P6_Score in [0,1].
C3_P6ScoreInUnitInterval ==
    \A i \in 1..Len(results) :
        0 <= results[i].P6_Score /\ results[i].P6_Score <= 1000

\* C6: a text of exactly 1000 words with exactly 10 keyword matches gets a
\* THIRD score of 1.0, whatever its character length.
C6_TenPerThousandWordsScoresOne ==
    \A i \in 1..Len(results) :
        (results[i].Word_Count = 1000 /\ results[i].Third_Party_Mentions = 10)
            => results[i].THIRD_Score = 1000

\* the documents attempted so far, by position in self.policies
Attempted == 1..Len(fetched)

FetchFailed(i) == fetched[i].text = None

\* the fetch returned a text, empty or shorter than the threshold
TooShort(i) == ~FetchFailed(i) /\ fetched[i].text.len < MinTextLen

\* the fetch returned a text of at least 100 characters
LongEnough(i) == ~FetchFailed(i) /\ fetched[i].text.len >= MinTextLen

StatisticsRaised(i) == LongEnough(i) /\ fetched[i].text.stats = Raises

\* the positions in results of the records of the i-th document
RecordsOf(i) == {j \in 1..Len(results) : results[j].URL = policies[i].URL}

\* analyze_all has returned
AnalyzeAllReturned == pc \in {"generate_report", "save_results", "complete", "done"}

\* C12 as claimed: when analyze_all returns after the fetch failed for
\* exactly M of the N documents, results holds exactly N - M entries.
C12_ResultsAreAllButFetchFailures ==
    AnalyzeAllReturned =>
        Len(results) = Len(policies) - Cardinality({i \in Attempted : FetchFailed(i)})

\* C12 as amended: when analyze_all returns after the fetch failed for M of
\* the N documents and the text of K others was shorter than 100
\* characters, results holds exactly N - M - K entries; and at every point
\* of a run, one cut short by an exception included, results holds one
\* entry per document attempted whose text had at least 100 characters and
\* whose statistics were computed.
C12_ResultsAreAllButFailedAndShort ==
    /\ AnalyzeAllReturned =>
           Len(results) = Len(policies)
                              - Cardinality({i \in Attempted : FetchFailed(i)})
                              - Cardinality({i \in Attempted : TooShort(i)})
    /\ Len(results) =
           Cardinality({i \in Attempted : LongEnough(i) /\ ~StatisticsRaised(i)})

\* a returned batch with a failed fetch, a text too short and a record
C12_Witness ==
    /\ pc = "generate_report"
    /\ \E i \in Attempted : FetchFailed(i)
    /\ \E i \in Attempted : TooShort(i)
    /\ Len(results) >= 1
    /\ Len(results) < Len(policies) - Cardinality({i \in Attempted : FetchFailed(i)})

\* C13: no error escapes the batch run: a fetch failure, a text empty or too
\* short and a failing statistic each leave the document without a result,
\* the iteration of every attempted document completes and no exception
\* leaves analyze_all.
C13_NoErrorEscapesTheBatch ==
    /\ pc # "raised"
    /\ idx = Len(fetched)
    /\ \A i \in Attempted :
           (FetchFailed(i) \/ TooShort(i) \/ StatisticsRaised(i)) => RecordsOf(i) = {}

\* C14: in every run of analyze_all every document of self.policies is
\* attempted exactly once, in the order of the mapping, whatever failed
\* before: the attempts made are the first documents in order, and once the
\* run of analyze_all is over they are all the documents.
C14_EveryDocumentAttemptedOnce ==
    /\ Len(fetched) <= Len(policies)
    /\ \A i \in Attempted : fetched[i].url = policies[i].URL
    /\ pc # "analyze_all" => Len(fetched) = Len(policies)

\* C15: a document has a result record if and only if its fetch succeeded
\* and its sanitized text has at least 100 characters; no text makes the
\* run crash.
C15_RecordIffFetchedAndLongEnough ==
    /\ pc # "raised"
    /\ \A i \in Attempted : (RecordsOf(i) # {}) <=> LongEnough(i)

\* C16: main reports successful completion only if some document succeeded.
C16_ZeroSuccessesSignalFailure ==
    (pc = "done") => results # <<>>

\* the fields of a result that say which document it is of and when it was made
IdentityFields == {"Platform", "URL", "Analysis_Date"}

MetricFields ==
    {"flesch_reading_ease", "flesch_kincaid_grade", "gunning_fog", "smog_index",
     "coleman_liau_index", "automated_readability_index",
     "dale_chall_readability_score", "difficult_words", "linsear_write_formula",
     "text_standard"}

\* a value analyze_readability returned holds every statistic
Complete_Metrics(m) ==
    /\ MetricFields \subseteq DOMAIN m
    /\ \A f \in MetricFields : m[f] \in Int

\* C18: analyze_readability returns None exactly for a text absent or
\* shorter than 100 characters, and what it returns otherwise holds every
\* statistic; every stored result was built from such a record.
C18_MetricsRecordAtomic ==
    \A i \in Attempted :
        LET m == analyze_readability(fetched[i].text)
        IN  /\ (m = None) <=> (FetchFailed(i) \/ TooShort(i))
            /\ (m # None /\ m # Exception) => Complete_Metrics(m)
            /\ \A j \in RecordsOf(i) :
                   /\ m # None /\ m # Exception /\ Complete_Metrics(m)
                   /\ results[j].Flesch_Reading_Ease = Round2(m.flesch_reading_ease)
                   /\ results[j].Flesch_Kincaid_Grade = Round2(m.flesch_kincaid_grade)
                   /\ results[j].Gunning_Fog = Round2(m.gunning_fog)
                   /\ results[j].Text_Standard = Round2(m.text_standard)

\* a batch with a record stored, a text too short and a failed fetch
C18_Witness ==
    /\ \E i \in Attempted : RecordsOf(i) # {}
    /\ \E i \in Attempted : TooShort(i) /\ fetched[i].text.len > 0
    /\ \E i \in Attempted : FetchFailed(i)

\* the Word_Count column, by which generate_report divides the
\* Third_Party_Mentions column
density_divisors(rows) == {rows[j].Word_Count : j \in 1..Len(rows)}

\* C22: every record stored in results has Character_Count >= 100 and
\* Word_Count >= 1, so the density of generate_report never divides by zero.
C22_StoredRecordsHaveWords ==
    /\ \A j \in 1..Len(results) :
           /\ results[j].Character_Count >= 100
           /\ results[j].Word_Count >= 1
    /\ report.kind = "DataFrame" => 0 \notin density_divisors(report.rows)

\* a report holding a record of exactly 100 characters in a single word,
\* after a text of 99 characters and an empty text were turned away
C22_Witness ==
    /\ report.kind = "DataFrame"
    /\ \E j \in 1..Len(report.rows) :
           /\ report.rows[j].Character_Count = 100
           /\ report.rows[j].Word_Count = 1
    /\ \E i \in Attempted : TooShort(i) /\ fetched[i].text.len = 99
    /\ \E i \in Attempted : TooShort(i) /\ fetched[i].text.len = 0

-----------------------------------------------------------------------------
(* Properties of an analyzer called in any order, under SpecCalls          *)

IsPrefix(s, t) == Len(s) <= Len(t) /\ SubSeq(t, 1, Len(s)) = s

\* the fetches of the log f that succeeded: a text of at least 100
\* characters came back and its statistics were computed
SuccessfulFetches(f) ==
    SelectSeq(f, LAMBDA e : /\ e.text # None
                            /\ e.text.len >= MinTextLen
                            /\ e.text.stats # Raises)

\* the list r holds one record per successful fetch of f, in their order
RecordsMatch(r, f) ==
    LET ok == SuccessfulFetches(f)
    IN  /\ Len(r) = Len(ok)
        /\ \A j \in 1..Len(r) :
               /\ r[j].URL = ok[j].url
               /\ r[j].Character_Count = ok[j].text.len

\* each fetch of f is of the first policy or of the one after the policy
\* fetched before it
InPoliciesOrder(f) ==
    \A k \in 1..Len(f) :
        \E i \in 1..Len(policies) :
            /\ f[k].url = policies[i].URL
            /\ i = 1 \/ (k > 1 /\ f[k - 1].url = policies[i - 1].URL)

\* C21: results is append-only and keeps its order: every step leaves the
\* records already there unchanged and in place; only an iteration of
\* analyze_all changes the list, by appending one record; starting
\* analyze_all again, generate_report, save_results and the scoring
\* functions leave it unchanged; and the list holds, in the order of the
\* fetches, which is the order of policies within each call, exactly one
\* record per document that succeeded.
C21_ResultsAppendOnly ==
    [][/\ IsPrefix(results, results')
       /\ Len(results') <= Len(results) + 1
       /\ pc # "in_analyze_all" => results' = results
       /\ RecordsMatch(results', fetched')
       /\ InPoliciesOrder(fetched')]_vars

\* records of two calls of analyze_all, those of the first reported before
\* the second call and still in place after it
C21_Witness ==
    /\ pc = "idle"
    /\ report.kind = "DataFrame"
    /\ Len(report.rows) < Len(results)
    /\ IsPrefix(report.rows, results)
    /\ results[Len(results)].URL = results[1].URL
    /\ \E k \in 1..Len(fetched) : fetched[k].text = None

=============================================================================
